---- MODULE Spec2Model ----
(***************************************************************************)
(* Model of @defy-labs/precise-money core.ts (src/unnamed/part_000).       *)
(*                                                                         *)
(* The core is a set of pure functions over BigInt and strings.  Every     *)
(* function is an operator computed the way the code computes it; a call   *)
(* is a two-state run: Init draws the operation and its arguments, the     *)
(* action of that operation applies it and stores what it returned (or     *)
(* that it threw).                                                         *)
(*                                                                         *)
(* Strings are sequences of one-character strings; a BigInt is an integer. *)
(* A returned value is [ok |-> TRUE, val |-> v]; a throw is                *)
(* [ok |-> FALSE, err |-> message].                                        *)
(***************************************************************************)
EXTENDS Integers, Sequences, FiniteSets, TLC

VARIABLES op, args, pc, result

vars == <<op, args, pc, result>>

(***************************************************************************)
(* Bounds of the model.                                                    *)
(***************************************************************************)
MaxHumanLen == 4
MaxParseLen == 5
MaxDec == 2
MaxMinor == 120
MaxUnits == 6
MaxDenom == 4
MaxAmount == 25
MaxTotal == 12
MaxLot == 5
MaxNumer == 15
MaxScale == 3
MaxSpent == 12
MaxFilled == 7
MaxShift == 2

(***************************************************************************)
(* Program constants.                                                      *)
(***************************************************************************)
BPS_BASE == 10000

\* divToDecimalString(numer, denom, scale = 8)
DEFAULT_SCALE == 8

Rounding == {"floor", "ceil", "round", "bankers"}

\* opts?.mode may be absent
ModeArg == Rounding \cup {"undefined"}

Ok(v) == [ok |-> TRUE, val |-> v]

Throw(msg) == [ok |-> FALSE, err |-> msg]

None == [ok |-> FALSE, err |-> "not called"]

(***************************************************************************)
(* BigInt primitives: / truncates toward zero, % takes the dividend's sign.*)
(***************************************************************************)
absBig(x) == IF x < 0 THEN -x ELSE x

BigDiv(n, d) ==
  LET q == absBig(n) \div absBig(d)
  IN IF (n < 0) = (d < 0) THEN q ELSE -q

BigRem(n, d) == n - d * BigDiv(n, d)

pow10(n) == 10 ^ n

(***************************************************************************)
(* String primitives of the JavaScript runtime the code calls.             *)
(***************************************************************************)
DigitChars == {"0", "1", "2", "3", "4", "5", "6", "7", "8", "9"}

DigitOf(c) ==
  CASE c = "0" -> 0 [] c = "1" -> 1 [] c = "2" -> 2 [] c = "3" -> 3
    [] c = "4" -> 4 [] c = "5" -> 5 [] c = "6" -> 6 [] c = "7" -> 7
    [] c = "8" -> 8 [] c = "9" -> 9

CharOf(n) == <<"0", "1", "2", "3", "4", "5", "6", "7", "8", "9">>[n + 1]

\* String.prototype.slice(start, end): negative indices count from the end
SliceIndex(len, i) ==
  IF i < 0 THEN (IF len + i < 0 THEN 0 ELSE len + i)
  ELSE (IF i > len THEN len ELSE i)

Slice(s, start, end) ==
  LET b == SliceIndex(Len(s), start)
      e == SliceIndex(Len(s), end)
  IN IF b >= e THEN <<>> ELSE SubSeq(s, b + 1, e)

\* slice(start) with the end omitted
SliceFrom(s, start) == Slice(s, start, Len(s))

\* '0'.repeat(n)
Zeros(n) == [i \in 1..n |-> "0"]

\* padStart(n, '0')
PadStart(s, n) == IF Len(s) >= n THEN s ELSE Zeros(n - Len(s)) \o s

\* BigInt.prototype.toString() of a non-negative value
RECURSIVE NatToString(_)
NatToString(n) ==
  IF n < 10 THEN <<CharOf(n)>>
  ELSE NatToString(n \div 10) \o <<CharOf(n % 10)>>

BigToString(n) == IF n < 0 THEN <<"-">> \o NatToString(-n) ELSE NatToString(n)

\* BigInt(s) of a string of digits
RECURSIVE BigIntOf(_)
BigIntOf(s) ==
  IF s = <<>> THEN 0
  ELSE 10 * BigIntOf(SubSeq(s, 1, Len(s) - 1)) + DigitOf(s[Len(s)])

\* /^\d+$/.test(s)
AllDigits(s) == s # <<>> /\ \A i \in 1..Len(s) : s[i] \in DigitChars

\* s.replace(/<any of chars>/g, '')
RECURSIVE RemoveChars(_, _)
RemoveChars(s, chars) ==
  IF s = <<>> THEN <<>>
  ELSE (IF Head(s) \in chars THEN <<>> ELSE <<Head(s)>>) \o RemoveChars(Tail(s), chars)

\* s.trim()
RECURSIVE TrimStart(_)
TrimStart(s) ==
  IF s # <<>> /\ Head(s) = " " THEN TrimStart(Tail(s)) ELSE s

RECURSIVE TrimEnd(_)
TrimEnd(s) ==
  IF s # <<>> /\ s[Len(s)] = " " THEN TrimEnd(SubSeq(s, 1, Len(s) - 1)) ELSE s

Trim(s) == TrimEnd(TrimStart(s))

\* s.lastIndexOf(c), 0-based, -1 when absent
LastIndexOf(s, c) ==
  LET hits == {i \in 1..Len(s) : s[i] = c}
  IN IF hits = {} THEN -1
     ELSE (CHOOSE i \in hits : \A j \in hits : j <= i) - 1

\* s.split(c): the pieces between the occurrences of c
RECURSIVE Split(_, _)
Split(s, c) ==
  LET hits == {i \in 1..Len(s) : s[i] = c}
  IN IF hits = {} THEN <<s>>
     ELSE LET i == CHOOSE k \in hits : \A j \in hits : k <= j
          IN <<SubSeq(s, 1, i - 1)>> \o Split(SubSeq(s, i + 1, Len(s)), c)

\* parts.slice(1).join('')
RECURSIVE JoinAll(_)
JoinAll(parts) ==
  IF parts = <<>> THEN <<>> ELSE Head(parts) \o JoinAll(Tail(parts))

\* s.replace(/^0+(?=\d)/, ''): leading zeros that are followed by a digit
RECURSIVE StripLeadingZeros(_)
StripLeadingZeros(s) ==
  IF Len(s) >= 2 /\ s[1] = "0" /\ s[2] \in DigitChars
  THEN StripLeadingZeros(Tail(s))
  ELSE s

(***************************************************************************)
(* normalizeAmountInput                                                    *)
(***************************************************************************)
Separators == {".", ",", " "}

normalizeAmountInput(x) ==
  LET s0 == Trim(x)
      sign == IF s0 # <<>> /\ s0[1] = "-" THEN -1 ELSE 1
      s1 == IF s0 # <<>> /\ s0[1] \in {"+", "-"} THEN Tail(s0) ELSE s0
      s == RemoveChars(s1, {" ", "_"})
      lastDot == LastIndexOf(s, ".")
      lastComma == LastIndexOf(s, ",")
      decSep == IF lastDot >= 0 \/ lastComma >= 0
                THEN (IF lastDot > lastComma THEN "." ELSE ",")
                ELSE ""
  IN IF s0 = <<>> THEN Throw("empty amount")
     ELSE IF decSep # ""
     THEN LET parts == Split(s, decSep)
              first == IF parts[1] = <<>> THEN <<"0">> ELSE parts[1]
              intPart == RemoveChars(first, Separators)
              fracPart == RemoveChars(JoinAll(Tail(parts)), Separators)
              stripped == StripLeadingZeros(intPart)
              intNorm == IF stripped = <<>> THEN <<"0">> ELSE stripped
          IN IF ~AllDigits(intPart) \/ (fracPart # <<>> /\ ~AllDigits(fracPart))
             THEN Throw("invalid amount")
             ELSE Ok([sign |-> sign, int |-> intNorm, frac |-> fracPart])
     ELSE LET digits == RemoveChars(s, Separators)
              stripped == StripLeadingZeros(digits)
              intNorm == IF stripped = <<>> THEN <<"0">> ELSE stripped
          IN IF ~AllDigits(digits)
             THEN Throw("invalid amount")
             ELSE Ok([sign |-> sign, int |-> intNorm, frac |-> <<>>])

(***************************************************************************)
(* roundAdjust, toMinor, fromMinor                                         *)
(***************************************************************************)
\* roundAdjust with the sign test of 'ceil' inverted
roundAdjustCeilInverted(base, sign, mode) ==
  CASE mode = "ceil" -> (IF sign < 0 THEN base + 1 ELSE base)
    [] mode = "round" -> base + sign
    [] mode = "bankers" -> (IF BigRem(base, 2) = 0 THEN base ELSE base + sign)
    [] OTHER -> base

roundAdjust(base, sign, mode) ==
  CASE mode = "ceil" -> (IF sign > 0 THEN base + 1 ELSE base)
    [] mode = "round" -> base + sign
    [] mode = "bankers" -> (IF BigRem(base, 2) = 0 THEN base ELSE base + sign)
    [] OTHER -> base

toMinor(human, decimals, modeArg) ==
  IF decimals < 0 THEN Throw("toMinor: decimals must be non-negative integer")
  ELSE LET n == normalizeAmountInput(human)
       IN IF ~n.ok THEN n
          ELSE LET mode == IF modeArg = "undefined" THEN "round" ELSE modeArg
                   padded == Slice(n.val.frac \o Zeros(decimals + 1), 0, decimals + 1)
                   core == Slice(padded, 0, decimals)
                   rd == Slice(padded, decimals, decimals + 1)
                   roundDigit == BigIntOf(IF rd = <<>> THEN <<"0">> ELSE rd)
                   base0 == BigIntOf(n.val.int) * pow10(decimals)
                            + BigIntOf(IF core = <<>> THEN <<"0">> ELSE core)
                   base == IF roundDigit > 0 THEN roundAdjust(base0, 1, mode) ELSE base0
               IN Ok(IF n.val.sign < 0 THEN -base ELSE base)

\* fromMinor without the padStart of the remainder
fromMinorNoPad(minor, decimals) ==
  IF decimals < 0 THEN Throw("fromMinor: decimals must be non-negative integer")
  ELSE LET neg == minor < 0
           abs == IF neg THEN -minor ELSE minor
           scale == pow10(decimals)
           i == BigDiv(abs, scale)
           f == BigToString(BigRem(abs, scale))
       IN Ok((IF neg THEN <<"-">> ELSE <<>>)
             \o (IF decimals = 0 THEN BigToString(i)
                 ELSE BigToString(i) \o <<".">> \o f))

\* fromMinor that takes zero for negative
fromMinorNegZero(minor, decimals) ==
  IF decimals < 0 THEN Throw("fromMinor: decimals must be non-negative integer")
  ELSE LET neg == minor <= 0
           abs == IF neg THEN -minor ELSE minor
           scale == pow10(decimals)
           i == BigDiv(abs, scale)
           f == PadStart(BigToString(BigRem(abs, scale)), decimals)
       IN Ok((IF neg THEN <<"-">> ELSE <<>>)
             \o (IF decimals = 0 THEN BigToString(i)
                 ELSE BigToString(i) \o <<".">> \o f))

fromMinor(minor, decimals) ==
  IF decimals < 0 THEN Throw("fromMinor: decimals must be non-negative integer")
  ELSE LET neg == minor < 0
           abs == IF neg THEN -minor ELSE minor
           scale == pow10(decimals)
           i == BigDiv(abs, scale)
           f == PadStart(BigToString(BigRem(abs, scale)), decimals)
       IN Ok((IF neg THEN <<"-">> ELSE <<>>)
             \o (IF decimals = 0 THEN BigToString(i)
                 ELSE BigToString(i) \o <<".">> \o f))

(***************************************************************************)
(* divRound, mulDiv, scaleUnits                                            *)
(***************************************************************************)
\* divRound whose 'round' needs more than a half to move away from zero
divRoundTieStays(n, d, mode) ==
  IF d = 0 THEN Throw("division by zero")
  ELSE LET q == BigDiv(n, d)
           r == BigRem(n, d)
           sign == IF (n > 0) = (d > 0) THEN 1 ELSE -1
           twice == absBig(r * 2)
       IN IF r = 0 THEN Ok(q)
          ELSE CASE mode = "floor" -> Ok(IF sign < 0 THEN q - 1 ELSE q)
                 [] mode = "ceil" -> Ok(IF sign > 0 THEN q + 1 ELSE q)
                 [] mode = "round" -> Ok(IF twice > absBig(d) THEN q + sign ELSE q)
                 [] mode = "bankers" ->
                      Ok(IF twice > absBig(d) THEN q + sign
                         ELSE IF twice < absBig(d) THEN q
                         ELSE IF BigRem(q, 2) = 0 THEN q ELSE q + sign)

divRound(n, d, mode) ==
  IF d = 0 THEN Throw("division by zero")
  ELSE LET q == BigDiv(n, d)
           r == BigRem(n, d)
           sign == IF (n > 0) = (d > 0) THEN 1 ELSE -1
           twice == absBig(r * 2)
       IN IF r = 0 THEN Ok(q)
          ELSE CASE mode = "floor" -> Ok(IF sign < 0 THEN q - 1 ELSE q)
                 [] mode = "ceil" -> Ok(IF sign > 0 THEN q + 1 ELSE q)
                 [] mode = "round" -> Ok(IF twice >= absBig(d) THEN q + sign ELSE q)
                 [] mode = "bankers" ->
                      Ok(IF twice > absBig(d) THEN q + sign
                         ELSE IF twice < absBig(d) THEN q
                         ELSE IF BigRem(q, 2) = 0 THEN q ELSE q + sign)

mulDiv(a, b, c, modeArg) ==
  LET mode == IF modeArg = "undefined" THEN "round" ELSE modeArg
  IN IF c = 0 THEN Throw("division by zero")
     ELSE divRound(a * b, c, mode)

\* scaleUnits that widens by 10^toDec instead of 10^(toDec - fromDec)
scaleUnitsWidenByTo(u, fromDec, toDec, modeArg) ==
  IF fromDec < 0 \/ toDec < 0
  THEN Throw("scaleUnits: decimals must be non-negative integers")
  ELSE IF fromDec = toDec THEN Ok(u)
  ELSE IF fromDec < toDec THEN Ok(u * pow10(toDec))
  ELSE divRound(u, pow10(fromDec - toDec),
                IF modeArg = "undefined" THEN "floor" ELSE modeArg)

scaleUnits(u, fromDec, toDec, modeArg) ==
  IF fromDec < 0 \/ toDec < 0
  THEN Throw("scaleUnits: decimals must be non-negative integers")
  ELSE IF fromDec = toDec THEN Ok(u)
  ELSE IF fromDec < toDec THEN Ok(u * pow10(toDec - fromDec))
  ELSE divRound(u, pow10(fromDec - toDec),
                IF modeArg = "undefined" THEN "floor" ELSE modeArg)

(***************************************************************************)
(* Basis points.  A JavaScript number is [kind, halves]: a finite value is *)
(* halves/2, so that fractional basis points exist; NaN and the infinities *)
(* are kinds of their own.                                                 *)
(***************************************************************************)
Finite(h) == [kind |-> "finite", halves |-> h]

NaN == [kind |-> "NaN", halves |-> 0]

Infinity == [kind |-> "Infinity", halves |-> 0]

NegInfinity == [kind |-> "-Infinity", halves |-> 0]

\* Math.trunc of a finite number
MathTrunc(x) == BigDiv(x.halves, 2)

\* Math.max(0, Math.min(10_000, Math.trunc(bps)))
clampBps(bps) ==
  CASE bps.kind = "NaN" -> NaN
    [] bps.kind = "Infinity" -> Finite(2 * 10000)
    [] bps.kind = "-Infinity" -> Finite(0)
    [] OTHER -> LET t == MathTrunc(bps)
                IN Finite(2 * (IF t > 10000 THEN 10000 ELSE IF t < 0 THEN 0 ELSE t))

applySlippage(amountOutMinor, slippageBps) ==
  IF slippageBps.kind # "finite" \/ slippageBps.halves < 0
  THEN Throw("slippageBps must be >= 0")
  ELSE LET num == BPS_BASE - MathTrunc(slippageBps)
       IN Ok(BigDiv(amountOutMinor * num, BPS_BASE))

slippageDown(amountMinor, bps) ==
  LET c == clampBps(bps)
  IN IF c.kind = "NaN" THEN Throw("RangeError: NaN cannot be converted to a BigInt")
     ELSE Ok(BigDiv(amountMinor * (BPS_BASE - MathTrunc(c)), BPS_BASE))

slippageUp(amountMinor, bps) ==
  LET c == clampBps(bps)
  IN IF c.kind = "NaN" THEN Throw("RangeError: NaN cannot be converted to a BigInt")
     ELSE LET num == amountMinor * (BPS_BASE + MathTrunc(c))
              q == BigDiv(num, BPS_BASE)
              r == BigRem(num, BPS_BASE)
          IN Ok(IF r = 0 THEN q ELSE q + 1)

(***************************************************************************)
(* splitAmount                                                             *)
(***************************************************************************)
\* the while loop, then the push of what is left
RECURSIVE SplitLoop(_, _, _)
SplitLoop(chunks, left, lotSizeMinor) ==
  IF left >= lotSizeMinor
  THEN SplitLoop(Append(chunks, lotSizeMinor), left - lotSizeMinor, lotSizeMinor)
  ELSE IF left > 0 THEN Append(chunks, left) ELSE chunks

\* the loop with the last push made for left >= 0
RECURSIVE SplitLoopPushZero(_, _, _)
SplitLoopPushZero(chunks, left, lotSizeMinor) ==
  IF left >= lotSizeMinor
  THEN SplitLoopPushZero(Append(chunks, lotSizeMinor), left - lotSizeMinor, lotSizeMinor)
  ELSE IF left >= 0 THEN Append(chunks, left) ELSE chunks

splitAmountPushZero(totalMinor, lotSizeMinor) ==
  IF lotSizeMinor <= 0 THEN Throw("lotSizeMinor must be > 0")
  ELSE Ok(SplitLoopPushZero(<<>>, totalMinor, lotSizeMinor))

splitAmount(totalMinor, lotSizeMinor) ==
  IF lotSizeMinor <= 0 THEN Throw("lotSizeMinor must be > 0")
  ELSE Ok(SplitLoop(<<>>, totalMinor, lotSizeMinor))

(***************************************************************************)
(* divToDecimalString.  An optional argument is <<>> when it is absent and *)
(* <<v>> when it is given.                                                 *)
(***************************************************************************)
divToDecimalString(numer, denom, scaleArg) ==
  LET scale == IF scaleArg = <<>> THEN DEFAULT_SCALE ELSE scaleArg[1]
  IN IF denom = 0 THEN Throw("division by zero")
     ELSE IF scale < 0 THEN Throw("scale must be a non-negative integer")
     ELSE LET neg == (numer < 0) # (denom < 0)
              a == absBig(numer)
              b == absBig(denom)
              scaled == a * pow10(scale)
              i == BigDiv(scaled, b)
              s == PadStart(BigToString(i), scale + 1)
              cut == Slice(s, 0, -scale)
              head == IF cut = <<>> THEN <<"0">> ELSE cut
              tail == SliceFrom(s, -scale)
          IN Ok((IF neg THEN <<"-">> ELSE <<>>) \o head
                \o (IF scale > 0 THEN <<".">> \o tail ELSE <<>>))

(***************************************************************************)
(* priceRatioDecimals                                                      *)
(***************************************************************************)
\* priceRatioDecimals without the slice that cuts the fraction to quoteDecimals
priceRatioDecimalsNoSlice(quoteDecimals, priceStr) ==
  IF quoteDecimals < 0 THEN Throw("quoteDecimals must be non-negative integer")
  ELSE LET n == normalizeAmountInput(priceStr)
       IN IF ~n.ok THEN n
          ELSE IF n.val.sign < 0 THEN Throw("negative price not allowed")
          ELSE Ok([num |-> BigIntOf(n.val.int \o (n.val.frac \o Zeros(quoteDecimals))),
                   den |-> pow10(quoteDecimals)])

priceRatioDecimals(quoteDecimals, priceStr) ==
  IF quoteDecimals < 0 THEN Throw("quoteDecimals must be non-negative integer")
  ELSE LET n == normalizeAmountInput(priceStr)
       IN IF ~n.ok THEN n
          ELSE IF n.val.sign < 0 THEN Throw("negative price not allowed")
          ELSE Ok([num |-> BigIntOf(n.val.int
                             \o Slice(n.val.frac \o Zeros(quoteDecimals), 0, quoteDecimals)),
                   den |-> pow10(quoteDecimals)])

(***************************************************************************)
(* convertUnitsByDecimals                                                  *)
(***************************************************************************)
\* convertUnitsByDecimals whose rescaling mulDiv is not given the mode
convertUnitsByDecimalsScaleDefault(amountUnits, fromDec, toDec, price, modeArg) ==
  IF fromDec < 0 \/ toDec < 0
  THEN Throw("convertUnitsByDecimals: decimals must be non-negative integers")
  ELSE LET mode == IF modeArg = "undefined" THEN "round" ELSE modeArg
           diff == toDec - fromDec
           scaleNum == IF diff >= 0 THEN pow10(diff) ELSE 1
           scaleDen == IF diff < 0 THEN pow10(-diff) ELSE 1
           inner == mulDiv(amountUnits, price.num, price.den, mode)
       IN IF ~inner.ok THEN inner
          ELSE mulDiv(inner.val, scaleNum, scaleDen, "undefined")

convertUnitsByDecimals(amountUnits, fromDec, toDec, price, modeArg) ==
  IF fromDec < 0 \/ toDec < 0
  THEN Throw("convertUnitsByDecimals: decimals must be non-negative integers")
  ELSE LET mode == IF modeArg = "undefined" THEN "round" ELSE modeArg
           diff == toDec - fromDec
           scaleNum == IF diff >= 0 THEN pow10(diff) ELSE 1
           scaleDen == IF diff < 0 THEN pow10(-diff) ELSE 1
           inner == mulDiv(amountUnits, price.num, price.den, mode)
       IN IF ~inner.ok THEN inner
          ELSE mulDiv(inner.val, scaleNum, scaleDen, mode)

(***************************************************************************)
(* avgFiatPricePerUnit                                                     *)
(***************************************************************************)
avgFiatPricePerUnit(filledQtyMinor, spentFiatMinor, outDecimals, fiatDecimals, scaleArg) ==
  LET scale == IF scaleArg = <<>> THEN DEFAULT_SCALE ELSE scaleArg[1]
  IN IF filledQtyMinor <= 0
     THEN Throw("avgFiatPricePerUnit: filledQtyMinor must be > 0")
     ELSE IF outDecimals < 0
     THEN Throw("avgFiatPricePerUnit: outDecimals must be a non-negative integer")
     ELSE IF fiatDecimals < 0
     THEN Throw("avgFiatPricePerUnit: fiatDecimals must be a non-negative integer")
     ELSE IF scale < 0
     THEN Throw("avgFiatPricePerUnit: scale must be a non-negative integer")
     ELSE LET numer == spentFiatMinor * pow10(outDecimals)
              denom == filledQtyMinor * pow10(fiatDecimals)
          IN divToDecimalString(numer, denom, <<scale>>)

(***************************************************************************)
(* Strings over an alphabet, up to a length.                               *)
(***************************************************************************)
StringsUpTo(alphabet, n) == UNION {[1..k -> alphabet] : k \in 0..n}

HumanChars == {"0", "1", "5", ".", ",", "-"}

ParseChars == {"0", "1", "5", ".", ",", "-", "+", "_", " "}

Decimals == -1..MaxDec

(***************************************************************************)
(* Codec: toMinor and fromMinor calls.                                     *)
(***************************************************************************)
ToMinorArgs ==
  [human : StringsUpTo(HumanChars, MaxHumanLen), decimals : Decimals, mode : ModeArg]

FromMinorArgs == [minor : -MaxMinor..MaxMinor, decimals : Decimals]

InitCodec ==
  /\ pc = "ready"
  /\ result = None
  /\ \/ op = "toMinor" /\ args \in ToMinorArgs
     \/ op = "fromMinor" /\ args \in FromMinorArgs

CallToMinor ==
  /\ pc = "ready" /\ op = "toMinor"
  /\ result' = toMinor(args.human, args.decimals, args.mode)
  /\ pc' = "done"
  /\ UNCHANGED <<op, args>>

CallFromMinor ==
  /\ pc = "ready" /\ op = "fromMinor"
  /\ result' = fromMinor(args.minor, args.decimals)
  /\ pc' = "done"
  /\ UNCHANGED <<op, args>>

NextCodec == CallToMinor \/ CallFromMinor

SpecCodec == InitCodec /\ [][NextCodec]_vars

(***************************************************************************)
(* Parser: normalizeAmountInput calls.                                     *)
(***************************************************************************)
InitParse ==
  /\ pc = "ready"
  /\ result = None
  /\ op = "normalizeAmountInput"
  /\ args \in [x : StringsUpTo(ParseChars, MaxParseLen)]

CallNormalizeAmountInput ==
  /\ pc = "ready" /\ op = "normalizeAmountInput"
  /\ result' = normalizeAmountInput(args.x)
  /\ pc' = "done"
  /\ UNCHANGED <<op, args>>

NextParse == CallNormalizeAmountInput

SpecParse == InitParse /\ [][NextParse]_vars

(***************************************************************************)
(* Arithmetic: mulDiv, scaleUnits, slippage and splitAmount calls.         *)
(***************************************************************************)
BpsWhole == {-1, 0, 1, 50, 9999, 10000, 10001, 12345}

BpsInputs ==
  {NaN, Infinity, NegInfinity} \cup {Finite(2 * b + f) : b \in BpsWhole, f \in {0, 1}}

MulDivArgs ==
  [a : -MaxUnits..MaxUnits, b : -MaxUnits..MaxUnits, c : -MaxDenom..MaxDenom, mode : ModeArg]

ScaleUnitsArgs ==
  [u : -MaxMinor..MaxMinor, fromDec : Decimals, toDec : Decimals, mode : ModeArg]

SlippageArgs == [amount : -MaxAmount..MaxAmount, bps : BpsInputs]

SplitAmountArgs == [total : -2..MaxTotal, lotSize : -1..MaxLot]

InitArith ==
  /\ pc = "ready"
  /\ result = None
  /\ \/ op = "mulDiv" /\ args \in MulDivArgs
     \/ op = "scaleUnits" /\ args \in ScaleUnitsArgs
     \/ op \in {"applySlippage", "slippageDown", "slippageUp"} /\ args \in SlippageArgs
     \/ op = "splitAmount" /\ args \in SplitAmountArgs

CallMulDiv ==
  /\ pc = "ready" /\ op = "mulDiv"
  /\ result' = mulDiv(args.a, args.b, args.c, args.mode)
  /\ pc' = "done"
  /\ UNCHANGED <<op, args>>

CallScaleUnits ==
  /\ pc = "ready" /\ op = "scaleUnits"
  /\ result' = scaleUnits(args.u, args.fromDec, args.toDec, args.mode)
  /\ pc' = "done"
  /\ UNCHANGED <<op, args>>

CallApplySlippage ==
  /\ pc = "ready" /\ op = "applySlippage"
  /\ result' = applySlippage(args.amount, args.bps)
  /\ pc' = "done"
  /\ UNCHANGED <<op, args>>

CallSlippageDown ==
  /\ pc = "ready" /\ op = "slippageDown"
  /\ result' = slippageDown(args.amount, args.bps)
  /\ pc' = "done"
  /\ UNCHANGED <<op, args>>

CallSlippageUp ==
  /\ pc = "ready" /\ op = "slippageUp"
  /\ result' = slippageUp(args.amount, args.bps)
  /\ pc' = "done"
  /\ UNCHANGED <<op, args>>

CallSplitAmount ==
  /\ pc = "ready" /\ op = "splitAmount"
  /\ result' = splitAmount(args.total, args.lotSize)
  /\ pc' = "done"
  /\ UNCHANGED <<op, args>>

NextArith ==
  \/ CallMulDiv
  \/ CallScaleUnits
  \/ CallApplySlippage
  \/ CallSlippageDown
  \/ CallSlippageUp
  \/ CallSplitAmount

SpecArith == InitArith /\ [][NextArith]_vars

(***************************************************************************)
(* Price: divToDecimalString calls.                                        *)
(***************************************************************************)
ScaleArg == {<<>>} \cup {<<s>> : s \in -1..MaxScale}

DivToDecimalStringArgs ==
  [numer : -MaxNumer..MaxNumer, denom : -MaxDenom..MaxDenom, scale : ScaleArg]

PriceRatioDecimalsArgs ==
  [quoteDecimals : Decimals, priceStr : StringsUpTo(HumanChars, MaxHumanLen)]

ConvertUnitsByDecimalsArgs ==
  [amount : -MaxUnits..MaxUnits, fromDec : Decimals, toDec : Decimals,
   price : [num : -1..MaxUnits, den : -MaxDenom..MaxDenom], mode : ModeArg]

\* The model's integers are 32 bits wide where the code's BigInt is unbounded:
\* the default scale of 8 digits is drawn only with outDecimals <= 0.
AvgFiatPricePerUnitArgs ==
  {a \in [filledQty : -1..MaxFilled, spentFiat : -MaxSpent..MaxSpent,
          outDecimals : Decimals, fiatDecimals : Decimals, scale : ScaleArg] :
     a.scale = <<>> => a.outDecimals <= 0}

InitPrice ==
  /\ pc = "ready"
  /\ result = None
  /\ \/ op = "divToDecimalString" /\ args \in DivToDecimalStringArgs
     \/ op = "priceRatioDecimals" /\ args \in PriceRatioDecimalsArgs
     \/ op = "convertUnitsByDecimals" /\ args \in ConvertUnitsByDecimalsArgs
     \/ op = "avgFiatPricePerUnit" /\ args \in AvgFiatPricePerUnitArgs

CallDivToDecimalString ==
  /\ pc = "ready" /\ op = "divToDecimalString"
  /\ result' = divToDecimalString(args.numer, args.denom, args.scale)
  /\ pc' = "done"
  /\ UNCHANGED <<op, args>>

CallPriceRatioDecimals ==
  /\ pc = "ready" /\ op = "priceRatioDecimals"
  /\ result' = priceRatioDecimals(args.quoteDecimals, args.priceStr)
  /\ pc' = "done"
  /\ UNCHANGED <<op, args>>

CallConvertUnitsByDecimals ==
  /\ pc = "ready" /\ op = "convertUnitsByDecimals"
  /\ result' = convertUnitsByDecimals(args.amount, args.fromDec, args.toDec,
                                       args.price, args.mode)
  /\ pc' = "done"
  /\ UNCHANGED <<op, args>>

CallAvgFiatPricePerUnit ==
  /\ pc = "ready" /\ op = "avgFiatPricePerUnit"
  /\ result' = avgFiatPricePerUnit(args.filledQty, args.spentFiat, args.outDecimals,
                                    args.fiatDecimals, args.scale)
  /\ pc' = "done"
  /\ UNCHANGED <<op, args>>

NextPrice ==
  \/ CallDivToDecimalString
  \/ CallPriceRatioDecimals
  \/ CallConvertUnitsByDecimals
  \/ CallAvgFiatPricePerUnit

SpecPrice == InitPrice /\ [][NextPrice]_vars

(***************************************************************************)
(* Properties of the codec and the parser.                                 *)
(***************************************************************************)
Done(o) == pc = "done" /\ op = o

\* C1: for every m >= 0 and decimals d >= 0, toMinor(fromMinor(m, d), d)
\* with the default rounding mode returns exactly m.
C1_RoundTrip ==
  (Done("fromMinor") /\ args.minor >= 0 /\ args.decimals >= 0)
    => /\ result.ok
       /\ toMinor(result.val, args.decimals, "undefined") = Ok(args.minor)

C1_Witness ==
  /\ Done("fromMinor") /\ args.minor = 105 /\ args.decimals = 2
  /\ result = Ok(<<"1", ".", "0", "5">>)

\* The value the claims give for a parsed amount, by arithmetic on the
\* parsed parts: B = I*10^d + (first d digits of f, right-padded) and
\* k = the (d+1)-th digit of f (0 if absent).
ClaimB(p, d) ==
  BigIntOf(p.int) * (10 ^ d) + ((BigIntOf(p.frac) * (10 ^ d)) \div (10 ^ Len(p.frac)))

ClaimK(p, d) == ((BigIntOf(p.frac) * (10 ^ (d + 1))) \div (10 ^ Len(p.frac))) % 10

ClaimToMinor(p, d, mode) ==
  LET B == ClaimB(p, d)
      k == ClaimK(p, d)
  IN CASE k = 0 \/ mode = "floor" -> p.sign * B
       [] k # 0 /\ mode \in {"ceil", "round"} -> p.sign * (B + 1)
       [] k # 0 /\ mode = "bankers" -> (IF B % 2 = 0 THEN p.sign * B ELSE p.sign * (B + 1))

C3_RoundIsHalfUp ==
  (/\ Done("toMinor") /\ args.decimals >= 0 /\ args.mode \in {"undefined", "round"}
   /\ normalizeAmountInput(args.human).ok
   /\ Len(normalizeAmountInput(args.human).val.frac) = args.decimals + 1)
    => LET p == normalizeAmountInput(args.human).val
           B == ClaimB(p, args.decimals)
           k == DigitOf(p.frac[args.decimals + 1])
       IN result = Ok(p.sign * (IF k >= 5 THEN B + 1 ELSE B))

\* The input of normalizeAmountInput after the sign, whitespace and underscore
\* removal.
Unsigned(x) ==
  LET s0 == Trim(x)
      s1 == IF s0 # <<>> /\ s0[1] \in {"+", "-"} THEN Tail(s0) ELSE s0
  IN RemoveChars(s1, {" ", "_"})

\* C4: for every accepted input that contains a '.' or ',', the radix point is
\* the last occurrence of either character: integerDigits is the digits before
\* that position (leading zeros stripped, at least one digit), fractionDigits
\* the digits after it; every earlier '.' or ',' is a grouping separator.
C4_LastSeparatorIsRadix ==
  (/\ Done("normalizeAmountInput") /\ result.ok
   /\ \E i \in 1..Len(Unsigned(args.x)) : Unsigned(args.x)[i] \in {".", ","})
    => LET s == Unsigned(args.x)
           radix == CHOOSE i \in 1..Len(s) :
                      /\ s[i] \in {".", ","}
                      /\ \A j \in (i + 1)..Len(s) : s[j] \notin {".", ","}
           before == RemoveChars(SubSeq(s, 1, radix - 1), {".", ","})
           after == RemoveChars(SubSeq(s, radix + 1, Len(s)), {".", ","})
           stripped == StripLeadingZeros(before)
       IN /\ result.val.int = (IF stripped = <<>> THEN <<"0">> ELSE stripped)
          /\ result.val.frac = after

(***************************************************************************)
(* Properties of the arithmetic.  The exact rational N/D (D > 0) is        *)
(* compared with an integer by cross-multiplication.                       *)
(***************************************************************************)
IsFloor(F, N, D) == F * D <= N /\ N < (F + 1) * D

IsCeil(C, N, D) == (C - 1) * D < N /\ N <= C * D

\* nearest integer, an exact tie going away from zero
IsRoundHalfAway(R, N, D) ==
  \/ 2 * absBig(N - R * D) < D
  \/ 2 * absBig(N - R * D) = D /\ absBig(R * D) > absBig(N)

\* nearest integer, an exact tie going to the even integer
IsRoundHalfEven(R, N, D) ==
  \/ 2 * absBig(N - R * D) < D
  \/ 2 * absBig(N - R * D) = D /\ R % 2 = 0

\* C5: for all integers a, b and every c # 0, mulDiv(a, b, c, mode) is the exact
\* rational a*b/c rounded: Floor the floor, Ceil the ceiling, Round the nearest
\* integer with ties away from zero, Bankers the nearest with ties to even; when
\* c divides a*b all four modes return the exact quotient.
C5_MulDivRounds ==
  (Done("mulDiv") /\ args.c # 0)
    => LET N == IF args.c < 0 THEN -(args.a * args.b) ELSE args.a * args.b
           D == absBig(args.c)
           mode == IF args.mode = "undefined" THEN "round" ELSE args.mode
       IN /\ result.ok
          /\ mode = "floor" => IsFloor(result.val, N, D)
          /\ mode = "ceil" => IsCeil(result.val, N, D)
          /\ mode = "round" => IsRoundHalfAway(result.val, N, D)
          /\ mode = "bankers" => IsRoundHalfEven(result.val, N, D)
          /\ N % D = 0 => result.val * D = N

C5_Witness ==
  /\ Done("mulDiv") /\ args.a = -5 /\ args.b = 1 /\ args.c = 2
  /\ args.mode = "round" /\ result = Ok(-3)

\* C6: for every integer amount of either sign, applySlippage(amount, bps) for
\* every finite bps >= 0 returns floor(amount * (10000 - trunc(bps)) / 10000)
\* and fails for negative or non-finite bps; slippageDown(amount, bps) returns
\* floor(amount * (10000 - clampBps(bps)) / 10000).
C6_SlippageFloors ==
  /\ Done("applySlippage")
       => IF args.bps.kind = "finite" /\ args.bps.halves >= 0
          THEN /\ result.ok
               /\ IsFloor(result.val, args.amount * (10000 - MathTrunc(args.bps)), 10000)
          ELSE ~result.ok
  /\ (Done("slippageDown") /\ args.bps.kind = "finite")
       => /\ result.ok
          /\ IsFloor(result.val,
                     args.amount * (10000 - MathTrunc(clampBps(args.bps))), 10000)

\* C7: for every integer amount of either sign and every finite bps,
\* slippageUp(amount, bps) is the ceiling of
\* amount * (10000 + clampBps(bps)) / 10000.
C7_SlippageUpCeils ==
  (Done("slippageUp") /\ args.bps.kind = "finite")
    => /\ result.ok
       /\ IsCeil(result.val,
                 args.amount * (10000 + MathTrunc(clampBps(args.bps))), 10000)

RECURSIVE SeqSum(_)
SeqSum(s) == IF s = <<>> THEN 0 ELSE Head(s) + SeqSum(Tail(s))

\* C8: for total >= 0 and lotSize > 0, splitAmount returns floor(total/lotSize)
\* chunks equal to lotSize followed by one chunk total mod lotSize iff that
\* remainder is non-zero; every chunk is in 1..lotSize, the result is empty for
\* total = 0 and the chunks sum to total.  For lotSize <= 0 the call fails.
C8_SplitAmount ==
  Done("splitAmount")
    => IF args.lotSize <= 0 THEN ~result.ok
       ELSE args.total >= 0
              => LET full == args.total \div args.lotSize
                     rest == args.total % args.lotSize
                     n == full + (IF rest # 0 THEN 1 ELSE 0)
                 IN /\ result.ok
                    /\ result.val = [i \in 1..n |-> IF i <= full THEN args.lotSize ELSE rest]
                    /\ \A i \in 1..Len(result.val) : result.val[i] \in 1..args.lotSize
                    /\ args.total = 0 => result.val = <<>>
                    /\ SeqSum(result.val) = args.total

C8_Witness ==
  /\ Done("splitAmount") /\ args.total = 10 /\ args.lotSize = 3
  /\ result = Ok(<<3, 3, 3, 1>>)

\* C9: for every integer x, decimals 0 <= a <= b and every rounding mode of the
\* narrowing step (the default included),
\* scaleUnits(scaleUnits(x, a, b), b, a, mode) = x; widening multiplies exactly
\* by 10^(b-a) and scaleUnits(x, a, a) = x.
C9_ScaleInverse ==
  (Done("scaleUnits") /\ 0 <= args.fromDec /\ args.fromDec <= args.toDec)
    => /\ result = Ok(args.u * (10 ^ (args.toDec - args.fromDec)))
       /\ args.fromDec = args.toDec => result = Ok(args.u)
       /\ \A mode \in ModeArg :
            scaleUnits(result.val, args.toDec, args.fromDec, mode) = Ok(args.u)

C9_Witness ==
  /\ Done("scaleUnits") /\ args.u = -7 /\ args.fromDec = 1 /\ args.toDec = 2
  /\ result = Ok(-70)

(***************************************************************************)
(* Properties of the price formatting.                                     *)
(***************************************************************************)
\* C10: for every numerator, non-zero denominator and scale >= 0, the returned
\* string read as a decimal number has magnitude
\* floor(|numerator| * 10^scale / |denominator|) / 10^scale and shows exactly
\* scale digits after the radix point; when scale = 0 it has no radix point and
\* its digits are floor(|numerator| / |denominator|); a leading '-' is present
\* exactly when exactly one of numerator < 0 and denominator < 0 holds.
C10_DivToDecimalString ==
  (/\ Done("divToDecimalString") /\ args.denom # 0
   /\ (args.scale = <<>> \/ args.scale[1] >= 0))
    => LET scale == IF args.scale = <<>> THEN 8 ELSE args.scale[1]
           M == (absBig(args.numer) * (10 ^ scale)) \div absBig(args.denom)
           neg == result.val[1] = "-"
           body == IF neg THEN Tail(result.val) ELSE result.val
           before == SubSeq(body, 1, Len(body) - scale - 1)
           after == SubSeq(body, Len(body) - scale + 1, Len(body))
       IN /\ result.ok
          /\ neg <=> ((args.numer < 0) # (args.denom < 0))
          /\ IF scale = 0
             THEN AllDigits(body) /\ BigIntOf(body) = M
             ELSE /\ Len(body) >= scale + 2
                  /\ body[Len(body) - scale] = "."
                  /\ AllDigits(before) /\ AllDigits(after)
                  /\ BigIntOf(before) * (10 ^ scale) + BigIntOf(after) = M

IsCanonicalNat(s) == AllDigits(s) /\ (Len(s) = 1 \/ s[1] # "0")

\* C12: for every integer minor and decimals d >= 0, fromMinor returns an
\* optional '-', the digits of floor(|minor| / 10^d) and, only when d > 0, a
\* '.' followed by exactly d digits equal to |minor| mod 10^d left-padded with
\* zeros; the '-' is present iff minor < 0 (never for zero), and there is no
\* radix point when d = 0.
C12_FromMinorFixedWidth ==
  (Done("fromMinor") /\ args.decimals >= 0)
    => LET d == args.decimals
           abs == absBig(args.minor)
           neg == result.val[1] = "-"
           body == IF neg THEN Tail(result.val) ELSE result.val
           before == SubSeq(body, 1, Len(body) - d - 1)
           after == SubSeq(body, Len(body) - d + 1, Len(body))
       IN /\ result.ok
          /\ neg <=> args.minor < 0
          /\ IF d = 0
             THEN IsCanonicalNat(body) /\ BigIntOf(body) = abs
             ELSE /\ Len(body) >= d + 2
                  /\ body[Len(body) - d] = "."
                  /\ IsCanonicalNat(before) /\ BigIntOf(before) = abs \div (10 ^ d)
                  /\ Len(after) = d /\ AllDigits(after)
                  /\ BigIntOf(after) = abs % (10 ^ d)

C12_Witness ==
  /\ Done("fromMinor") /\ args.minor = -105 /\ args.decimals = 2
  /\ result = Ok(<<"-", "1", ".", "0", "5">>)

\* r is the exact rational N/D (D > 0) rounded under the mode
IsRounded(mode, r, N, D) ==
  CASE mode = "floor" -> IsFloor(r, N, D)
    [] mode = "ceil" -> IsCeil(r, N, D)
    [] mode = "round" -> IsRoundHalfAway(r, N, D)
    [] mode = "bankers" -> IsRoundHalfEven(r, N, D)

\* C13: let R = mulDiv(amount, num, den, mode).  If toDec >= fromDec the result
\* is R * 10^(toDec - fromDec); if toDec < fromDec it is R divided by
\* 10^(fromDec - toDec) rounded under the same mode.  A ratio with den = 0
\* fails with the division-by-zero error, and negative decimals fail before any
\* arithmetic.
C13_ConvertTwoRoundings ==
  Done("convertUnitsByDecimals")
    => LET mode == IF args.mode = "undefined" THEN "round" ELSE args.mode
           den == args.price.den
           N == IF den < 0 THEN -(args.amount * args.price.num)
                ELSE args.amount * args.price.num
           R == mulDiv(args.amount, args.price.num, den, args.mode).val
           diff == args.toDec - args.fromDec
       IN IF args.fromDec < 0 \/ args.toDec < 0
          THEN result = Throw("convertUnitsByDecimals: decimals must be non-negative integers")
          ELSE IF den = 0 THEN result = Throw("division by zero")
          ELSE /\ result.ok
               /\ IsRounded(mode, R, N, absBig(den))
               /\ diff >= 0 => result.val = R * (10 ^ diff)
               /\ diff < 0 => IsRounded(mode, result.val, R, 10 ^ (-diff))

C13_Witness ==
  /\ Done("convertUnitsByDecimals") /\ args.amount = 5 /\ args.price = [num |-> 5, den |-> 2]
  /\ args.fromDec = 1 /\ args.toDec = 0 /\ args.mode = "ceil"
  /\ result = Ok(2)

\* the arguments of an avgFiatPricePerUnit call are valid
AvgValid ==
  /\ args.filledQty > 0 /\ args.outDecimals >= 0 /\ args.fiatDecimals >= 0
  /\ (args.scale = <<>> \/ args.scale[1] >= 0)

AvgScale == IF args.scale = <<>> THEN 8 ELSE args.scale[1]

\* the shifts k for which the re-expressed quantities stay within 32 bits
AvgShifts == {k \in 0..MaxShift : args.outDecimals + k + AvgScale <= 8}

\* the result is divToDecimalString(spentFiat * 10^outDecimals,
\* filledQty * 10^fiatDecimals, scale)
AvgEqualsDivToDecimalString ==
  result = divToDecimalString(args.spentFiat * (10 ^ args.outDecimals),
                              args.filledQty * (10 ^ args.fiatDecimals), <<AvgScale>>)

\* the result, read as a decimal number, has the magnitude of
\* (spentFiat / 10^fiatDecimals) / (filledQty / 10^outDecimals) truncated to
\* scale digits
AvgIsTruncatedValue ==
  LET M == (absBig(args.spentFiat) * (10 ^ args.outDecimals) * (10 ^ AvgScale))
             \div (args.filledQty * (10 ^ args.fiatDecimals))
      neg == result.val[1] = "-"
      body == IF neg THEN Tail(result.val) ELSE result.val
      digits == RemoveChars(body, {"."})
  IN /\ AllDigits(digits) /\ BigIntOf(digits) = M
     /\ IF AvgScale = 0 THEN digits = body
        ELSE Len(body) >= AvgScale + 2 /\ body[Len(body) - AvgScale] = "."

\* the same quantities at a higher precision give the identical string
AvgPrecisionIndependent ==
  \A k \in AvgShifts :
    /\ avgFiatPricePerUnit(args.filledQty * (10 ^ k), args.spentFiat,
                           args.outDecimals + k, args.fiatDecimals, args.scale) = result
    /\ avgFiatPricePerUnit(args.filledQty, args.spentFiat * (10 ^ k),
                           args.outDecimals, args.fiatDecimals + k, args.scale) = result

\* C14: for filledQty > 0, any spentFiat and valid outDecimals, fiatDecimals,
\* scale, avgFiatPricePerUnit returns divToDecimalString(spentFiat * 10^outDecimals,
\* filledQty * 10^fiatDecimals, scale), i.e. the truncated value of
\* (spentFiat / 10^fiatDecimals) / (filledQty / 10^outDecimals), and the same
\* quantities re-expressed at a higher precision (filledQty * 10^k with
\* outDecimals + k, or spentFiat * 10^k with fiatDecimals + k) return the
\* identical string.  filledQty <= 0 fails.
C14_AvgPricePrecisionIndependent ==
  Done("avgFiatPricePerUnit")
    => /\ args.filledQty <= 0 => ~result.ok
       /\ AvgValid
            => /\ result.ok
               /\ AvgEqualsDivToDecimalString
               /\ AvgIsTruncatedValue
               /\ AvgPrecisionIndependent

\* C15: for every parsable non-negative input of any fraction length with exact
\* value v and every decimals d >= 0,
\* toMinor(input, d, Floor) <= v * 10^d <= toMinor(input, d, Ceil), and the two
\* results differ by at most 1.
C15_FloorCeilBracket ==
  (/\ Done("toMinor") /\ args.decimals >= 0 /\ args.mode = "ceil"
   /\ normalizeAmountInput(args.human).ok
   /\ normalizeAmountInput(args.human).val.sign > 0)
    => LET p == normalizeAmountInput(args.human).val
           L == Len(p.frac)
           \* v = P / 10^L
           P == BigIntOf(p.int) * (10 ^ L) + BigIntOf(p.frac)
           lo == toMinor(args.human, args.decimals, "floor")
       IN /\ result.ok /\ lo.ok
          /\ lo.val * (10 ^ L) <= P * (10 ^ args.decimals)
          /\ P * (10 ^ args.decimals) <= result.val * (10 ^ L)
          /\ result.val - lo.val <= 1

\* every digit of the string is '0'
AllZeroDigits(s) == \A i \in 1..Len(s) : s[i] \in DigitChars => s[i] = "0"

\* C16: for every numerator, non-zero denominator and scale >= 0, if all digits
\* of the string divToDecimalString returns are '0' then the string has no
\* leading '-'.
C16_NoNegativeZero ==
  (Done("divToDecimalString") /\ result.ok /\ AllZeroDigits(result.val))
    => result.val[1] # "-"

====
